---- MODULE Spec2Model ----
(***************************************************************************)
(* Model of cmk/utils/licensing/export.py: the subscription limit parser   *)
(* (SubscriptionDetailsLimit), the sample parsers of the nine protocol     *)
(* versions (ParserV1_0 .. ParserV3_0) and the monthly aggregation engine  *)
(* (MonthlyServiceAverages).                                               *)
(*                                                                         *)
(* Python values are tagged records (PyNone, PyInt, PyStr, ...), Python    *)
(* strings are tuples of one-character strings, naive local datetimes are  *)
(* seconds since 1970-01-01T00:00:00 local time, and a float average is    *)
(* the exact fraction num/den (the counts are far below 2^53, so the       *)
(* float comparisons of the code agree with the exact ones).               *)
(***************************************************************************)
EXTENDS Integers, Sequences, FiniteSets, TLC

VARIABLES
    subscription_details,      \* MonthlyServiceAverages._subscription_details
    short_samples,             \* the constructor's short_samples argument
    daily_services,            \* MonthlyServiceAverages._daily_services
    monthly_service_averages,  \* MonthlyServiceAverages._monthly_service_averages
    today,                     \* MonthlyServiceAverages.today (class attribute)
    report,                    \* what the latest get_aggregation call returned
    calls,                     \* number of get_aggregation calls so far
    limit_pc,                  \* position of the limit round trip: idle, obj, raw, done
    limit_obj,                 \* a SubscriptionDetailsLimit about to be rendered
    raw_limit,                 \* the raw_limit argument of SubscriptionDetailsLimit.parse
    parsed_limit,              \* what SubscriptionDetailsLimit.parse returned or raised
    sample_pc,                 \* position of the sample parse: idle, raw, done
    protocol_version,          \* the protocol version the parser is made for
    arg_instance_id,           \* the instance_id argument of parse_sample
    arg_site_hash,             \* the site_hash argument of parse_sample
    raw_sample,                \* the raw argument of parse_sample
    parsed_sample              \* what parse_sample returned or raised

vars == <<subscription_details, short_samples, daily_services, monthly_service_averages,
          today, report, calls, limit_pc, limit_obj, raw_limit, parsed_limit,
          sample_pc, protocol_version, arg_instance_id, arg_site_hash, raw_sample,
          parsed_sample>>

aggVars == <<subscription_details, short_samples, daily_services,
             monthly_service_averages, today, report, calls>>

limitVars == <<limit_pc, limit_obj, raw_limit, parsed_limit>>

sampleVars == <<sample_pc, protocol_version, arg_instance_id, arg_site_hash, raw_sample,
                parsed_sample>>

-----------------------------------------------------------------------------
(* Bounds of the model *)

\* longest short_samples sequence enumerated in full
MaxSamples == 2

\* most get_aggregation calls on one instance
MaxCalls == 2

-----------------------------------------------------------------------------
(* Python values *)

PyNone == [py |-> "NoneType"]

PyInt(n) == [py |-> "int", int |-> n]

PyStr(s) == [py |-> "str", str |-> s]

\* a float with one decimal digit: tenths / 10
PyFloat(t) == [py |-> "float", tenths |-> t]

PyTuple(items) == [py |-> "tuple", items |-> items]

PyList(items) == [py |-> "list", items |-> items]

PyDict == [py |-> "dict"]

IsNone(x) == x.py = "NoneType"

IsInt(x) == x.py = "int"

IsStr(x) == x.py = "str"

IsFloat(x) == x.py = "float"

IsTuple(x) == x.py = "tuple"

IsList(x) == x.py = "list"

Abs(n) == IF n < 0 THEN -n ELSE n

DigitChars == <<"0", "1", "2", "3", "4", "5", "6", "7", "8", "9">>

RECURSIVE Dec(_)
\* decimal digits of a natural number
Dec(n) == IF n < 10 THEN <<DigitChars[n + 1]>> ELSE Dec(n \div 10) \o <<DigitChars[(n % 10) + 1]>>

\* str(int)
StrOfInt(n) == IF n < 0 THEN <<"-">> \o Dec(-n) ELSE Dec(n)

\* str(float) of a one-decimal float
StrOfFloat(t) ==
    (IF t < 0 THEN <<"-">> ELSE <<>>) \o Dec(Abs(t) \div 10) \o <<".">> \o Dec(Abs(t) % 10)

\* str(x) for str, int and float
PyStrOf(x) ==
    IF IsStr(x) THEN x.str
    ELSE IF IsInt(x) THEN StrOfInt(x.int)
    ELSE StrOfFloat(x.tenths)

IsDigit(c) == \E i \in 1..10 : DigitChars[i] = c

DigitValue(c) == (CHOOSE i \in 1..10 : DigitChars[i] = c) - 1

RECURSIVE Strip(_)
\* str.strip() of blanks, as int(str) does before parsing
Strip(s) ==
    IF s = <<>> THEN s
    ELSE IF Head(s) = " " THEN Strip(Tail(s))
    ELSE IF s[Len(s)] = " " THEN Strip(SubSeq(s, 1, Len(s) - 1))
    ELSE s

\* the digits part of an int literal: digits, single underscores only between digits
IsDigitRun(s) ==
    /\ s # <<>>
    /\ \A i \in 1..Len(s) : IsDigit(s[i]) \/ s[i] = "_"
    /\ IsDigit(s[1]) /\ IsDigit(s[Len(s)])
    /\ \A i \in 1..(Len(s) - 1) : ~(s[i] = "_" /\ s[i + 1] = "_")

RECURSIVE DigitRunValue(_, _)
DigitRunValue(s, acc) ==
    IF s = <<>> THEN acc
    ELSE IF Head(s) = "_" THEN DigitRunValue(Tail(s), acc)
    ELSE DigitRunValue(Tail(s), 10 * acc + DigitValue(Head(s)))

\* int(x): [ok |-> TRUE, int |-> n] or [ok |-> FALSE, error |-> exception name]
PyIntOf(x) ==
    IF IsInt(x) THEN [ok |-> TRUE, int |-> x.int]
    ELSE IF IsFloat(x)
        THEN [ok |-> TRUE,
              int |-> IF x.tenths < 0 THEN -((-x.tenths) \div 10) ELSE x.tenths \div 10]
    ELSE IF IsStr(x)
        THEN LET s == Strip(x.str)
                 signed == s # <<>> /\ Head(s) \in {"+", "-"}
                 digits == IF signed THEN Tail(s) ELSE s
             IN IF IsDigitRun(digits)
                   THEN [ok |-> TRUE,
                         int |-> IF signed /\ Head(s) = "-"
                                    THEN -DigitRunValue(digits, 0)
                                    ELSE DigitRunValue(digits, 0)]
                   ELSE [ok |-> FALSE, error |-> "ValueError"]
    ELSE [ok |-> FALSE, error |-> "TypeError"]

-----------------------------------------------------------------------------
(* Calendar: datetime.fromtimestamp, datetime.timestamp, relativedelta *)

SecondsPerDay == 86400

\* the local time zone, a fixed offset east of UTC in seconds
UtcOffset == 3600

\* days since 1970-01-01 of the proleptic Gregorian date y-m-d
DaysFromCivil(y, m, d) ==
    LET yy == IF m <= 2 THEN y - 1 ELSE y
        era == yy \div 400
        yoe == yy - era * 400
        mp == IF m > 2 THEN m - 3 ELSE m + 9
        doy == (153 * mp + 2) \div 5 + d - 1
        doe == yoe * 365 + yoe \div 4 - yoe \div 100 + doy
    IN era * 146097 + doe - 719468

\* month, day and year of the day doy (counted from March 1) of year yoe of a 400-year era
CivilOfDayOfYear(era, yoe, doy, mp) ==
    <<yoe + era * 400 + (IF mp < 10 THEN 0 ELSE 1),
      IF mp < 10 THEN mp + 3 ELSE mp - 9,
      doy - (153 * mp + 2) \div 5 + 1>>

CivilOfYearOfEra(era, doe, yoe) ==
    CivilOfDayOfYear(era, yoe, doe - (365 * yoe + yoe \div 4 - yoe \div 100),
        (5 * (doe - (365 * yoe + yoe \div 4 - yoe \div 100)) + 2) \div 153)

CivilOfDayOfEra(era, doe) ==
    CivilOfYearOfEra(era, doe, (doe - doe \div 1460 + doe \div 36524 - doe \div 146096) \div 365)

\* the date <<y, m, d>> of a day number
CivilFromDays(z) == CivilOfDayOfEra((z + 719468) \div 146097, (z + 719468) % 146097)

IsLeap(y) == (y % 4 = 0 /\ y % 100 # 0) \/ y % 400 = 0

DaysInMonth(y, m) ==
    IF m = 2 THEN (IF IsLeap(y) THEN 29 ELSE 28)
    ELSE IF m \in {4, 6, 9, 11} THEN 30
    ELSE 31

\* datetime.fromtimestamp(ts): the naive local datetime of epoch seconds
FromTimestamp(ts) == ts + UtcOffset

\* datetime.timestamp(): epoch seconds of a naive local datetime
Timestamp(dt) == dt - UtcOffset

\* datetime(year, month, day) of a datetime, i.e. replace(hour=0, minute=0, second=0, microsecond=0)
Midnight(dt) == dt - (dt % SecondsPerDay)

\* the datetime y-m-d plus seconds, the day clipped to the month's length
ClippedDate(y, m, d, seconds) ==
    DaysFromCivil(y, m, IF d > DaysInMonth(y, m) THEN DaysInMonth(y, m) ELSE d) * SecondsPerDay
    + seconds

\* the month after the date ymd, same day and time of day
MonthAfter(ymd, seconds) ==
    ClippedDate(IF ymd[2] = 12 THEN ymd[1] + 1 ELSE ymd[1],
                IF ymd[2] = 12 THEN 1 ELSE ymd[2] + 1,
                ymd[3], seconds)

\* dt + relativedelta(months=+1): next month, the day clipped to the month's length
AddMonth(dt) == MonthAfter(CivilFromDays(dt \div SecondsPerDay), dt % SecondsPerDay)

\* epoch seconds of the local wall-clock time y-m-d h:mi:s
LocalTime(y, m, d, h, mi, s) ==
    Timestamp(DaysFromCivil(y, m, d) * SecondsPerDay + h * 3600 + mi * 60 + s)

-----------------------------------------------------------------------------
(* SubscriptionDetailsLimit *)

Str2000000Plus == StrOfInt(2000000) \o <<"+">>

StrFixed == <<"f", "i", "x", "e", "d">>

StrCustom == <<"c", "u", "s", "t", "o", "m">>

StrUnlimited == <<"u", "n", "l", "i", "m", "i", "t", "e", "d">>

\* the numeric literals of _SUBSCRIPTION_LIMITS_FIXED
FixedTierValues ==
    {3000, 7000, 12000, 18000, 30000, 60000, 100000, 200000, 300000, 500000,
     1000000, 1500000, 2000000}

_SUBSCRIPTION_LIMITS_FIXED == {StrOfInt(n) : n \in FixedTierValues} \cup {Str2000000Plus}

SubscriptionDetailsLimit(type_, value) == [type_ |-> type_, value |-> value]

\* SubscriptionDetailsLimitType.<member>.name
TypeName(type_) ==
    IF type_ = "fixed" THEN StrFixed
    ELSE IF type_ = "unlimited" THEN StrUnlimited
    ELSE StrCustom

\* SubscriptionDetailsLimit.for_report
for_report(limit) == PyTuple(<<PyStr(TypeName(limit.type_)), PyInt(limit.value)>>)

Returned(limit) == [ok |-> TRUE, limit |-> limit]

Raised(error) == [ok |-> FALSE, error |-> error]

\* raw_type in ["2000000+", "unlimited"]
IsUnlimitedTag(raw_type) == IsStr(raw_type) /\ raw_type.str \in {Str2000000Plus, StrUnlimited}

\* variant of _parse without the test int(raw_value) == -1
_parse_ignoring_minus_one(raw_type, raw_value) ==
    IF IsUnlimitedTag(raw_type)
       THEN Returned(SubscriptionDetailsLimit("unlimited", -1))
    ELSE LET n == PyIntOf(raw_value)
         IN IF ~n.ok THEN Raised(n.error)
            ELSE IF PyStrOf(raw_value) \in _SUBSCRIPTION_LIMITS_FIXED
                THEN Returned(SubscriptionDetailsLimit("fixed", n.int))
            ELSE Returned(SubscriptionDetailsLimit("custom", n.int))

\* variant of _parse that looks the raw value up in the tier set without str()
_parse_unstringified(raw_type, raw_value) ==
    IF IsUnlimitedTag(raw_type)
       THEN Returned(SubscriptionDetailsLimit("unlimited", -1))
    ELSE LET n == PyIntOf(raw_value)
         IN IF ~n.ok THEN Raised(n.error)
            ELSE IF n.int = -1 THEN Returned(SubscriptionDetailsLimit("unlimited", -1))
            ELSE IF IsStr(raw_value) /\ raw_value.str \in _SUBSCRIPTION_LIMITS_FIXED
                THEN Returned(SubscriptionDetailsLimit("fixed", n.int))
            ELSE Returned(SubscriptionDetailsLimit("custom", n.int))

\* SubscriptionDetailsLimit._parse
_parse(raw_type, raw_value) ==
    IF IsUnlimitedTag(raw_type)
       THEN Returned(SubscriptionDetailsLimit("unlimited", -1))
    ELSE LET n == PyIntOf(raw_value)
         IN IF ~n.ok THEN Raised(n.error)
            ELSE IF n.int = -1 THEN Returned(SubscriptionDetailsLimit("unlimited", -1))
            ELSE IF PyStrOf(raw_value) \in _SUBSCRIPTION_LIMITS_FIXED
                THEN Returned(SubscriptionDetailsLimit("fixed", n.int))
            ELSE Returned(SubscriptionDetailsLimit("custom", n.int))

\* SubscriptionDetailsLimit.parse
parse(raw) ==
    IF (IsList(raw) \/ IsTuple(raw)) /\ Len(raw.items) = 2
       THEN _parse(raw.items[1], raw.items[2])
    ELSE IF IsStr(raw) \/ IsInt(raw) \/ IsFloat(raw)
       THEN _parse(PyStr(PyStrOf(raw)), raw)
    ELSE Raised("TypeError")

-----------------------------------------------------------------------------
(* MonthlyServiceAverage and SubscriptionDetailsForAggregation *)

RECURSIVE Gcd(_, _)
Gcd(a, b) == IF b = 0 THEN a ELSE Gcd(b, a % b)

\* the float a / b (a >= 0, b > 0) as a fraction in lowest terms
Fraction(a, b) == LET g == Gcd(a, b) IN [num |-> a \div g, den |-> b \div g]

FracGE(x, y) == x.num * y.den >= y.num * x.den

FracGT(x, y) == x.num * y.den > y.num * x.den

\* int(x) of a non-negative float
FracInt(x) == x.num \div x.den

MonthlyServiceAverage(sample_date, num_services) ==
    [sample_date |-> sample_date, num_services |-> num_services]

\* MonthlyServiceAverage.for_report
AverageForReport(a) ==
    [sample_time |-> Timestamp(a.sample_date), num_services |-> a.num_services]

StrFree == <<"f", "r", "e", "e">>

LimitUnlimited == PyStr(StrUnlimited)

LimitFree == PyTuple(<<PyStr(StrFree), PyInt(3)>>)

SubscriptionDetailsForAggregation(start, end, limit) ==
    [start |-> start, end |-> end, limit |-> limit]

\* SubscriptionDetailsForAggregation.__post_init__ does not raise
PostInitOk(details) == ~(IsInt(details.limit) /\ details.limit.int <= 0)

\* SubscriptionDetailsForAggregation.is_free
is_free(details) ==
    IsTuple(details.limit) /\ details.limit.items[1] = PyStr(StrFree)

\* variant of real_limit that knows no limit for the ("free", n) pair
real_limit_ignoring_free(details) ==
    IF IsInt(details.limit) THEN details.limit ELSE PyNone

\* SubscriptionDetailsForAggregation.real_limit
real_limit(details) ==
    IF IsTuple(details.limit) THEN details.limit.items[2]
    ELSE IF IsInt(details.limit) THEN details.limit
    ELSE PyNone

\* SubscriptionDetailsForAggregation.for_report
DetailsForReport(details) ==
    [start |-> details.start,
     end |-> details.end,
     limit |-> IF IsTuple(details.limit) THEN details.limit.items[2] ELSE details.limit]

-----------------------------------------------------------------------------
(* MonthlyServiceAverages._calculate_daily_services *)

\* License usage history per site is max. 400 long
RetentionDays == 400

\* dict.setdefault(key, Counter()).update(name=n) on a dict kept as the sequence of its
\* items <<key, count>> in insertion order
SetDefaultUpdate(dict, key, n) ==
    IF \E j \in 1..Len(dict) : dict[j][1] = key
       THEN LET j == CHOOSE j \in 1..Len(dict) : dict[j][1] = key
            IN [dict EXCEPT ![j] = <<key, dict[j][2] + n>>]
       ELSE Append(dict, <<key, n>>)

RECURSIVE BucketSamples(_, _, _, _)
\* the loop over short_samples[lo..hi], in order (the first half is run before the second)
BucketSamples(samples, lo, hi, dict) ==
    IF lo > hi THEN dict
    ELSE IF lo = hi
        THEN LET sample_date == FromTimestamp(samples[lo][1])
             IN SetDefaultUpdate(dict, Midnight(sample_date), samples[lo][2])
    ELSE LET mid == (lo + hi) \div 2
             first == BucketSamples(samples, lo, mid, dict)
         IN IF Len(first) > 0 THEN BucketSamples(samples, mid + 1, hi, first) ELSE first

\* sorted(daily_services.items()): the keys are distinct datetimes
SortedItems(dict) == SortSeq(dict, LAMBDA a, b : a[1] < b[1])

\* variant of seq[-n:] that keeps the oldest n entries
LastN_oldest(seq, n) == IF Len(seq) <= n THEN seq ELSE SubSeq(seq, 1, n)

\* seq[-n:]
LastN(seq, n) == IF Len(seq) <= n THEN seq ELSE SubSeq(seq, Len(seq) - n + 1, Len(seq))

CalculateDailyServices(samples) ==
    LET dict == BucketSamples(samples, 1, Len(samples), <<>>)
        kept == LastN(SortedItems(dict), RetentionDays)
    IN [i \in 1..Len(kept) |-> MonthlyServiceAverage(kept[i][1], Fraction(kept[i][2], 1))]

-----------------------------------------------------------------------------
(* MonthlyServiceAverages._calculate_averages *)

\* monthly_services.setdefault(month_start, Counter()).update(num_daily_services=1, num_services=n)
\* on a dict kept as the sequence of its items in insertion order
CounterUpdate(monthly_services, month_start, n) ==
    IF \E j \in 1..Len(monthly_services) : monthly_services[j].month_start = month_start
       THEN LET j == CHOOSE j \in 1..Len(monthly_services) :
                        monthly_services[j].month_start = month_start
            IN [monthly_services EXCEPT
                   ![j].num_daily_services = @ + 1,
                   ![j].num_services = @ + n]
       ELSE Append(monthly_services,
                   [month_start |-> month_start, num_daily_services |-> 1, num_services |-> n])

\* if daily_service.sample_date >= month_end: the window moves on by one month
WindowAfter(sample_date, month_start, month_end) ==
    IF sample_date >= month_end
       THEN [month_start |-> month_end, month_end |-> AddMonth(month_end)]
       ELSE [month_start |-> month_start, month_end |-> month_end]

\* variant of the skip test that lets through a month ending exactly now
SkipMonth_late(month_end, now, subscription_end_date) ==
    month_end > now \/ month_end > subscription_end_date

\* Skip last, incomplete month (subscription_end_date excl.)
SkipMonth(month_end, now, subscription_end_date) ==
    month_end >= now \/ month_end > subscription_end_date

\* the rest of the loop body once the window w is set; stopped is the break
ScanInWindow(daily_service, now, subscription_end_date, st, w) ==
    IF SkipMonth(w.month_end, now, subscription_end_date)
       THEN [st EXCEPT !.month_start = w.month_start, !.month_end = w.month_end,
                       !.stopped = TRUE]
       ELSE [st EXCEPT
                !.month_start = w.month_start,
                !.month_end = w.month_end,
                !.monthly_services =
                    IF w.month_start <= daily_service.sample_date
                       /\ daily_service.sample_date < w.month_end
                       THEN CounterUpdate(@, w.month_start, FracInt(daily_service.num_services))
                       ELSE @]

\* one pass of the body of the loop over self._daily_services
ScanStep(daily_service, now, subscription_end_date, st) ==
    ScanInWindow(daily_service, now, subscription_end_date, st,
                 WindowAfter(daily_service.sample_date, st.month_start, st.month_end))

RECURSIVE ScanDailyServices(_, _, _, _, _, _)
\* the loop over self._daily_services[lo..hi], in order, until the break
ScanDailyServices(daily, lo, hi, now, subscription_end_date, st) ==
    IF lo > hi \/ st.stopped THEN st
    ELSE IF lo = hi THEN ScanStep(daily[lo], now, subscription_end_date, st)
    ELSE LET mid == (lo + hi) \div 2
             first == ScanDailyServices(daily, lo, mid, now, subscription_end_date, st)
         IN IF first.stopped THEN first
            ELSE ScanDailyServices(daily, mid + 1, hi, now, subscription_end_date, first)

\* variant of the appended entries that reports the month's total instead of its average
NewAverages_totals(monthly_services) ==
    [j \in 1..Len(monthly_services) |->
        MonthlyServiceAverage(monthly_services[j].month_start,
            Fraction(monthly_services[j].num_services, 1))]

\* the entries _calculate_averages appends for the months it found
NewAverages(monthly_services) ==
    [j \in 1..Len(monthly_services) |->
        MonthlyServiceAverage(monthly_services[j].month_start,
            Fraction(monthly_services[j].num_services, monthly_services[j].num_daily_services))]

\* variant of _calculate_averages that fills in a missing start with the first daily
\* date and a missing end with now
CalculateAverages_defaulting(details, daily, now, averages) ==
    IF daily = <<>> THEN averages
    ELSE LET month_start == IF IsNone(details.start) THEN Midnight(daily[1].sample_date)
                            ELSE Midnight(FromTimestamp(details.start.int))
             month_end == AddMonth(month_start)
             subscription_end_date == IF IsNone(details.end) THEN Midnight(now)
                                      ELSE Midnight(FromTimestamp(details.end.int))
             scanned == ScanDailyServices(daily, 1, Len(daily), now, subscription_end_date,
                            [month_start |-> month_start, month_end |-> month_end,
                             monthly_services |-> <<>>, stopped |-> FALSE])
         IN averages \o NewAverages(scanned.monthly_services)

\* self._monthly_service_averages after _calculate_averages
CalculateAverages(details, daily, now, averages) ==
    IF daily = <<>> THEN averages
    ELSE IF IsNone(details.start) \/ IsNone(details.end) THEN averages
    ELSE LET month_start == Midnight(FromTimestamp(details.start.int))
             month_end == AddMonth(month_start)
             subscription_end_date == Midnight(FromTimestamp(details.end.int))
             scanned == ScanDailyServices(daily, 1, Len(daily), now, subscription_end_date,
                            [month_start |-> month_start, month_end |-> month_end,
                             monthly_services |-> <<>>, stopped |-> FALSE])
         IN averages \o NewAverages(scanned.monthly_services)

-----------------------------------------------------------------------------
(* the three summaries *)

GetLastServiceReport(averages) ==
    IF averages = <<>> THEN PyNone ELSE AverageForReport(averages[Len(averages)])

RECURSIVE MaxByServices_last(_, _, _)
\* variant of the max that keeps the last of the greatest
MaxByServices_last(averages, i, best) ==
    IF i > Len(averages) THEN best
    ELSE MaxByServices_last(averages, i + 1,
            IF FracGE(averages[i].num_services, best.num_services) THEN averages[i] ELSE best)

RECURSIVE MaxByServices(_, _, _)
\* max(averages, key=lambda d: d.num_services): the first of the greatest
MaxByServices(averages, i, best) ==
    IF i > Len(averages) THEN best
    ELSE MaxByServices(averages, i + 1,
            IF FracGT(averages[i].num_services, best.num_services) THEN averages[i] ELSE best)

GetHighestServiceReport(averages) ==
    IF averages = <<>> THEN PyNone
    ELSE AverageForReport(MaxByServices(averages, 2, averages[1]))

RECURSIVE FirstReaching(_, _, _)
\* the loop of _get_subscription_exceeded_first; falling off its end returns None
FirstReaching(averages, i, limit) ==
    IF i > Len(averages) THEN PyNone
    ELSE IF FracGE(averages[i].num_services, Fraction(limit, 1))
        THEN AverageForReport(averages[i])
    ELSE FirstReaching(averages, i + 1, limit)

GetSubscriptionExceededFirst(details, averages) ==
    IF IsNone(real_limit(details)) THEN PyNone
    ELSE FirstReaching(averages, 1, real_limit(details).int)

\* the RawMonthlyServiceAggregation get_aggregation returns
Aggregation(details, daily, averages) ==
    [subscription_details |-> DetailsForReport(details),
     daily_services |-> [i \in 1..Len(daily) |-> AverageForReport(daily[i])],
     monthly_service_averages |-> [i \in 1..Len(averages) |-> AverageForReport(averages[i])],
     last_service_report |-> GetLastServiceReport(averages),
     highest_service_report |-> GetHighestServiceReport(averages),
     subscription_exceeded_first |-> GetSubscriptionExceededFirst(details, averages)]

-----------------------------------------------------------------------------
(* More Python values: bool, dict with contents, truth value, UUID *)

PyBool(b) == [py |-> "bool", bool |-> b]

\* a dict with str keys: map is the function from its keys to its values
PyMapping(map) == [py |-> "dict", map |-> map]

IsBool(x) == x.py = "bool"

IsDict(x) == x.py = "dict"

\* the value of a call: what it returned
Value(v) == [ok |-> TRUE, value |-> v]

\* dict.get(key, default)
Get(map, key, default) == IF key \in DOMAIN map THEN map[key] ELSE default

\* bool(x), as in "if not x"
Truthy(x) ==
    CASE IsNone(x) -> FALSE
      [] IsBool(x) -> x.bool
      [] IsInt(x) -> x.int # 0
      [] IsFloat(x) -> x.tenths # 0
      [] IsStr(x) -> x.str # <<>>
      [] IsTuple(x) \/ IsList(x) -> x.items # <<>>
      [] IsDict(x) -> DOMAIN x.map # {}
      [] OTHER -> TRUE

RECURSIVE RemoveAll(_, _)
\* s.replace(pattern, "")
RemoveAll(s, pattern) ==
    IF Len(s) < Len(pattern) THEN s
    ELSE IF SubSeq(s, 1, Len(pattern)) = pattern
        THEN RemoveAll(SubSeq(s, Len(pattern) + 1, Len(s)), pattern)
    ELSE <<s[1]>> \o RemoveAll(Tail(s), pattern)

RECURSIVE StripChars(_, _)
\* s.strip(chars)
StripChars(s, chars) ==
    IF s = <<>> THEN s
    ELSE IF s[1] \in chars THEN StripChars(Tail(s), chars)
    ELSE IF s[Len(s)] \in chars THEN StripChars(SubSeq(s, 1, Len(s) - 1), chars)
    ELSE s

LowerHex(c) ==
    CASE c = "A" -> "a" [] c = "B" -> "b" [] c = "C" -> "c"
      [] c = "D" -> "d" [] c = "E" -> "e" [] c = "F" -> "f"
      [] OTHER -> c

IsHexDigit(c) == IsDigit(c) \/ LowerHex(c) \in {"a", "b", "c", "d", "e", "f"}

\* the UUID of int(hex, 16): two UUIDs are equal when their 128-bit numbers are, which
\* are written here as 32 lower-case hexadecimal digits
UUIDOfDigits(hex) ==
    IF Len(hex) # 32 THEN Raised("ValueError")
    ELSE IF \E i \in 1..Len(hex) : ~IsHexDigit(hex[i]) THEN Raised("ValueError")
    ELSE Value([py |-> "UUID", hex |-> [i \in 1..Len(hex) |-> LowerHex(hex[i])]])

\* uuid.UUID(hex): hex.replace("urn:", "").replace("uuid:", "").strip("{}").replace("-", "")
\* must be 32 hexadecimal digits (strings with blanks, a sign, an underscore or a 0x
\* prefix, which int(hex, 16) also reads, are not among the inputs of the model)
UUID(hex) ==
    IF ~IsStr(hex) THEN Raised("AttributeError")
    ELSE UUIDOfDigits(RemoveAll(StripChars(RemoveAll(RemoveAll(hex.str,
                          <<"u", "r", "n", ":">>), <<"u", "u", "i", "d", ":">>), {"{", "}"}),
                      <<"-">>))

-----------------------------------------------------------------------------
(* LicenseUsageExtensions, LicenseUsageSample and the sample parsers *)

LicenseUsageExtensions(ntop) == [py |-> "LicenseUsageExtensions", ntop |-> ntop]

\* raw_sample.get("extensions", {}).get("ntop", False): a value without a get method
\* raises AttributeError
NestedNtop(extensions) ==
    IF IsDict(extensions) THEN Value(Get(extensions.map, "ntop", PyBool(FALSE)))
    ELSE Raised("AttributeError")

\* raw_sample.get("extension_ntop", nested): the default nested is evaluated first
FlattenedNtop(map, nested) ==
    IF ~nested.ok THEN nested
    ELSE Value(LicenseUsageExtensions(Get(map, "extension_ntop", nested.value)))

\* LicenseUsageExtensions.parse_from_sample
parse_from_sample(raw_sample_) ==
    IF ~IsDict(raw_sample_) THEN Raised("TypeError")
    ELSE FlattenedNtop(raw_sample_.map,
                       NestedNtop(Get(raw_sample_.map, "extensions", PyMapping(<<>>))))

\* _parse_platform: platform[:50]
_parse_platform(platform) ==
    IF IsStr(platform)
       THEN Value(PyStr(IF Len(platform.str) <= 50 THEN platform.str
                        ELSE SubSeq(platform.str, 1, 50)))
    ELSE IF IsTuple(platform) \/ IsList(platform)
       THEN Value([platform EXCEPT !.items = IF Len(@) <= 50 THEN @ ELSE SubSeq(@, 1, 50)])
    ELSE Raised("TypeError")

\* the fields of LicenseUsageSample, in the order of its keyword arguments
SampleFields ==
    <<"instance_id", "site_hash", "version", "edition", "platform", "is_cma", "sample_time",
      "timezone", "num_hosts", "num_hosts_cloud", "num_hosts_shadow", "num_hosts_excluded",
      "num_services", "num_services_cloud", "num_services_shadow", "num_services_excluded",
      "num_synthetic_tests", "num_synthetic_tests_excluded", "extension_ntop">>

\* the kinds of keyword argument the parsers write: a value at hand, raw[key],
\* _parse_platform(raw["platform"]) and UUID(raw_instance_id)
Given(v) == [kind |-> "given", value |-> v]

Item(key) == [kind |-> "item", key |-> key]

PlatformItem == [kind |-> "platform"]

UUIDOf(v) == [kind |-> "uuid", value |-> v]

\* the value of one keyword argument, or the exception its evaluation raises
Evaluate(map, argument) ==
    CASE argument.kind = "given" -> Value(argument.value)
      [] argument.kind = "item" ->
            IF argument.key \in DOMAIN map THEN Value(map[argument.key]) ELSE Raised("KeyError")
      [] argument.kind = "platform" ->
            IF "platform" \in DOMAIN map THEN _parse_platform(map["platform"])
            ELSE Raised("KeyError")
      [] argument.kind = "uuid" -> UUID(argument.value)

\* the sample of the evaluated keyword arguments, or the first exception among them
SampleOf(evaluated) ==
    IF \A i \in DOMAIN evaluated : evaluated[i].ok
       THEN Value([f \in {SampleFields[i] : i \in DOMAIN SampleFields} |->
                      evaluated[CHOOSE i \in DOMAIN SampleFields : SampleFields[i] = f].value])
    ELSE Raised(evaluated[CHOOSE i \in DOMAIN evaluated :
                              /\ ~evaluated[i].ok
                              /\ \A j \in 1..(i - 1) : evaluated[j].ok].error)

\* LicenseUsageSample(instance_id=..., ..., extension_ntop=...): the keyword arguments are
\* evaluated in their order
LicenseUsageSample(map, arguments) ==
    SampleOf([i \in DOMAIN SampleFields |-> Evaluate(map, arguments[SampleFields[i]])])

\* the return statement of ParserV1_0.parse_sample
ParserV1_0_sample(instance_id, site_hash, map, extensions) ==
    IF ~extensions.ok THEN extensions
    ELSE LicenseUsageSample(map,
            [instance_id |-> Given(instance_id),
             site_hash |-> Given(site_hash),
             version |-> Item("version"),
             edition |-> Item("edition"),
             platform |-> PlatformItem,
             is_cma |-> Item("is_cma"),
             sample_time |-> Item("sample_time"),
             timezone |-> Item("timezone"),
             num_hosts |-> Item("num_hosts"),
             num_hosts_cloud |-> Given(PyInt(0)),
             num_hosts_shadow |-> Given(PyInt(0)),
             num_hosts_excluded |-> Given(PyInt(0)),
             num_services |-> Item("num_services"),
             num_services_cloud |-> Given(PyInt(0)),
             num_services_shadow |-> Given(PyInt(0)),
             num_services_excluded |-> Given(PyInt(0)),
             num_synthetic_tests |-> Given(PyInt(0)),
             num_synthetic_tests_excluded |-> Given(PyInt(0)),
             extension_ntop |-> Given(extensions.value.ntop)])

\* ParserV1_0.parse_sample
ParserV1_0_parse_sample(instance_id, site_hash, raw) ==
    IF ~IsDict(raw) THEN Raised("TypeError")
    ELSE IF ~Truthy(Get(raw.map, "site_hash", site_hash)) THEN Raised("ValueError")
    ELSE ParserV1_0_sample(instance_id, Get(raw.map, "site_hash", site_hash), raw.map,
                           parse_from_sample(raw))

\* the return statement of _parse_sample_v1_1
_parse_sample_v1_1_sample(instance_id, site_hash, map, extensions) ==
    IF ~extensions.ok THEN extensions
    ELSE LicenseUsageSample(map,
            [instance_id |-> Given(instance_id),
             site_hash |-> Given(site_hash),
             version |-> Item("version"),
             edition |-> Item("edition"),
             platform |-> PlatformItem,
             is_cma |-> Item("is_cma"),
             sample_time |-> Item("sample_time"),
             timezone |-> Item("timezone"),
             num_hosts |-> Item("num_hosts"),
             num_hosts_cloud |-> Given(PyInt(0)),
             num_hosts_shadow |-> Given(PyInt(0)),
             num_hosts_excluded |-> Item("num_hosts_excluded"),
             num_services |-> Item("num_services"),
             num_services_cloud |-> Given(PyInt(0)),
             num_services_shadow |-> Given(PyInt(0)),
             num_services_excluded |-> Item("num_services_excluded"),
             num_synthetic_tests |-> Given(PyInt(0)),
             num_synthetic_tests_excluded |-> Given(PyInt(0)),
             extension_ntop |-> Given(extensions.value.ntop)])

\* _parse_sample_v1_1 (versions 1.1, 1.2 and 1.3)
_parse_sample_v1_1(instance_id, site_hash, raw) ==
    IF ~IsDict(raw) THEN Raised("TypeError")
    ELSE IF ~Truthy(Get(raw.map, "site_hash", site_hash)) THEN Raised("ValueError")
    ELSE _parse_sample_v1_1_sample(instance_id, Get(raw.map, "site_hash", site_hash), raw.map,
                                   parse_from_sample(raw))

\* variant of the return statement of ParserV1_4.parse_sample that reads the shadow hosts
\* under the key num_hosts_shadow
ParserV1_4_sample_renamed(instance_id, site_hash, map, extensions) ==
    IF ~extensions.ok THEN extensions
    ELSE LicenseUsageSample(map,
            [instance_id |-> Given(instance_id),
             site_hash |-> Given(site_hash),
             version |-> Item("version"),
             edition |-> Item("edition"),
             platform |-> PlatformItem,
             is_cma |-> Item("is_cma"),
             sample_time |-> Item("sample_time"),
             timezone |-> Item("timezone"),
             num_hosts |-> Item("num_hosts"),
             num_hosts_cloud |-> Given(PyInt(0)),
             num_hosts_shadow |-> Item("num_hosts_shadow"),
             num_hosts_excluded |-> Item("num_hosts_excluded"),
             num_services |-> Item("num_services"),
             num_services_cloud |-> Given(PyInt(0)),
             num_services_shadow |-> Given(PyInt(0)),
             num_services_excluded |-> Item("num_services_excluded"),
             num_synthetic_tests |-> Given(PyInt(0)),
             num_synthetic_tests_excluded |-> Given(PyInt(0)),
             extension_ntop |-> Given(extensions.value.ntop)])

\* the return statement of ParserV1_4.parse_sample
ParserV1_4_sample(instance_id, site_hash, map, extensions) ==
    IF ~extensions.ok THEN extensions
    ELSE LicenseUsageSample(map,
            [instance_id |-> Given(instance_id),
             site_hash |-> Given(site_hash),
             version |-> Item("version"),
             edition |-> Item("edition"),
             platform |-> PlatformItem,
             is_cma |-> Item("is_cma"),
             sample_time |-> Item("sample_time"),
             timezone |-> Item("timezone"),
             num_hosts |-> Item("num_hosts"),
             num_hosts_cloud |-> Given(PyInt(0)),
             num_hosts_shadow |-> Item("num_shadow_hosts"),
             num_hosts_excluded |-> Item("num_hosts_excluded"),
             num_services |-> Item("num_services"),
             num_services_cloud |-> Given(PyInt(0)),
             num_services_shadow |-> Given(PyInt(0)),
             num_services_excluded |-> Item("num_services_excluded"),
             num_synthetic_tests |-> Given(PyInt(0)),
             num_synthetic_tests_excluded |-> Given(PyInt(0)),
             extension_ntop |-> Given(extensions.value.ntop)])

\* ParserV1_4.parse_sample
ParserV1_4_parse_sample(instance_id, site_hash, raw) ==
    IF ~IsDict(raw) THEN Raised("TypeError")
    ELSE IF ~Truthy(Get(raw.map, "site_hash", site_hash)) THEN Raised("ValueError")
    ELSE ParserV1_4_sample(instance_id, Get(raw.map, "site_hash", site_hash), raw.map,
                           parse_from_sample(raw))

\* the return statement of ParserV1_5.parse_sample
ParserV1_5_sample(raw_instance_id, site_hash, map, extensions) ==
    IF ~extensions.ok THEN extensions
    ELSE LicenseUsageSample(map,
            [instance_id |-> UUIDOf(raw_instance_id),
             site_hash |-> Given(site_hash),
             version |-> Item("version"),
             edition |-> Item("edition"),
             platform |-> PlatformItem,
             is_cma |-> Item("is_cma"),
             sample_time |-> Item("sample_time"),
             timezone |-> Item("timezone"),
             num_hosts |-> Item("num_hosts"),
             num_hosts_cloud |-> Given(PyInt(0)),
             num_hosts_shadow |-> Item("num_shadow_hosts"),
             num_hosts_excluded |-> Item("num_hosts_excluded"),
             num_services |-> Item("num_services"),
             num_services_cloud |-> Given(PyInt(0)),
             num_services_shadow |-> Given(PyInt(0)),
             num_services_excluded |-> Item("num_services_excluded"),
             num_synthetic_tests |-> Given(PyInt(0)),
             num_synthetic_tests_excluded |-> Given(PyInt(0)),
             extension_ntop |-> Given(extensions.value.ntop)])

\* variant of ParserV1_5.parse_sample that takes the caller's instance_id when the record
\* has none
ParserV1_5_parse_sample_lenient(instance_id, site_hash, raw) ==
    IF ~IsDict(raw) THEN Raised("TypeError")
    ELSE IF ~Truthy(Get(raw.map, "instance_id", PyNone))
        THEN ParserV1_4_parse_sample(instance_id, site_hash, raw)
    ELSE IF ~Truthy(Get(raw.map, "site_hash", site_hash)) THEN Raised("ValueError")
    ELSE ParserV1_5_sample(Get(raw.map, "instance_id", PyNone),
                           Get(raw.map, "site_hash", site_hash), raw.map,
                           parse_from_sample(raw))

\* ParserV1_5.parse_sample: the instance_id argument is not used
ParserV1_5_parse_sample(instance_id, site_hash, raw) ==
    IF ~IsDict(raw) THEN Raised("TypeError")
    ELSE IF ~Truthy(Get(raw.map, "instance_id", PyNone)) THEN Raised("ValueError")
    ELSE IF ~Truthy(Get(raw.map, "site_hash", site_hash)) THEN Raised("ValueError")
    ELSE ParserV1_5_sample(Get(raw.map, "instance_id", PyNone),
                           Get(raw.map, "site_hash", site_hash), raw.map,
                           parse_from_sample(raw))

\* the return statement of _parse_sample_v2_0
_parse_sample_v2_0_sample(raw_instance_id, site_hash, map, extensions) ==
    IF ~extensions.ok THEN extensions
    ELSE LicenseUsageSample(map,
            [instance_id |-> UUIDOf(raw_instance_id),
             site_hash |-> Given(site_hash),
             version |-> Item("version"),
             edition |-> Item("edition"),
             platform |-> PlatformItem,
             is_cma |-> Item("is_cma"),
             sample_time |-> Item("sample_time"),
             timezone |-> Item("timezone"),
             num_hosts |-> Item("num_hosts"),
             num_hosts_cloud |-> Item("num_hosts_cloud"),
             num_hosts_shadow |-> Item("num_hosts_shadow"),
             num_hosts_excluded |-> Item("num_hosts_excluded"),
             num_services |-> Item("num_services"),
             num_services_cloud |-> Item("num_services_cloud"),
             num_services_shadow |-> Item("num_services_shadow"),
             num_services_excluded |-> Item("num_services_excluded"),
             num_synthetic_tests |-> Given(PyInt(0)),
             num_synthetic_tests_excluded |-> Given(PyInt(0)),
             extension_ntop |-> Given(extensions.value.ntop)])

\* _parse_sample_v2_0 (versions 2.0 and 2.1): the instance_id argument is not used
_parse_sample_v2_0(instance_id, site_hash, raw) ==
    IF ~IsDict(raw) THEN Raised("TypeError")
    ELSE IF ~Truthy(Get(raw.map, "instance_id", PyNone)) THEN Raised("ValueError")
    ELSE IF ~Truthy(Get(raw.map, "site_hash", site_hash)) THEN Raised("ValueError")
    ELSE _parse_sample_v2_0_sample(Get(raw.map, "instance_id", PyNone),
                                   Get(raw.map, "site_hash", site_hash), raw.map,
                                   parse_from_sample(raw))

\* the return statement of ParserV3_0.parse_sample
ParserV3_0_sample(raw_instance_id, site_hash, map, extensions) ==
    IF ~extensions.ok THEN extensions
    ELSE LicenseUsageSample(map,
            [instance_id |-> UUIDOf(raw_instance_id),
             site_hash |-> Given(site_hash),
             version |-> Item("version"),
             edition |-> Item("edition"),
             platform |-> PlatformItem,
             is_cma |-> Item("is_cma"),
             sample_time |-> Item("sample_time"),
             timezone |-> Item("timezone"),
             num_hosts |-> Item("num_hosts"),
             num_hosts_cloud |-> Item("num_hosts_cloud"),
             num_hosts_shadow |-> Item("num_hosts_shadow"),
             num_hosts_excluded |-> Item("num_hosts_excluded"),
             num_services |-> Item("num_services"),
             num_services_cloud |-> Item("num_services_cloud"),
             num_services_shadow |-> Item("num_services_shadow"),
             num_services_excluded |-> Item("num_services_excluded"),
             num_synthetic_tests |-> Item("num_synthetic_tests"),
             num_synthetic_tests_excluded |-> Item("num_synthetic_tests_excluded"),
             extension_ntop |-> Given(extensions.value.ntop)])

\* variant of ParserV3_0.parse_sample that takes the caller's site hash when the record's
\* is empty
ParserV3_0_parse_sample_or_fallback(instance_id, site_hash, raw) ==
    IF ~IsDict(raw) THEN Raised("TypeError")
    ELSE IF ~Truthy(Get(raw.map, "instance_id", PyNone)) THEN Raised("ValueError")
    ELSE IF ~Truthy(Get(raw.map, "site_hash", site_hash)) /\ ~Truthy(site_hash)
        THEN Raised("ValueError")
    ELSE ParserV3_0_sample(Get(raw.map, "instance_id", PyNone),
                           IF Truthy(Get(raw.map, "site_hash", site_hash))
                              THEN Get(raw.map, "site_hash", site_hash) ELSE site_hash,
                           raw.map, parse_from_sample(raw))

\* ParserV3_0.parse_sample: the instance_id argument is not used
ParserV3_0_parse_sample(instance_id, site_hash, raw) ==
    IF ~IsDict(raw) THEN Raised("TypeError")
    ELSE IF ~Truthy(Get(raw.map, "instance_id", PyNone)) THEN Raised("ValueError")
    ELSE IF ~Truthy(Get(raw.map, "site_hash", site_hash)) THEN Raised("ValueError")
    ELSE ParserV3_0_sample(Get(raw.map, "instance_id", PyNone),
                           Get(raw.map, "site_hash", site_hash), raw.map,
                           parse_from_sample(raw))

\* the nine protocol version literals
ProtocolVersions == {"1.0", "1.1", "1.2", "1.3", "1.4", "1.5", "2.0", "2.1", "3.0"}

\* make_parser: the parser class of a protocol version
make_parser(version) ==
    CASE version = "1.0" -> "ParserV1_0"
      [] version = "1.1" -> "ParserV1_1"
      [] version = "1.2" -> "ParserV1_2"
      [] version = "1.3" -> "ParserV1_3"
      [] version = "1.4" -> "ParserV1_4"
      [] version = "1.5" -> "ParserV1_5"
      [] version = "2.0" -> "ParserV2_0"
      [] version = "2.1" -> "ParserV2_1"
      [] version = "3.0" -> "ParserV3_0"

\* parser.parse_sample(instance_id, site_hash, raw)
parse_sample(parser, instance_id, site_hash, raw) ==
    CASE parser = "ParserV1_0" -> ParserV1_0_parse_sample(instance_id, site_hash, raw)
      [] parser \in {"ParserV1_1", "ParserV1_2", "ParserV1_3"} ->
            _parse_sample_v1_1(instance_id, site_hash, raw)
      [] parser = "ParserV1_4" -> ParserV1_4_parse_sample(instance_id, site_hash, raw)
      [] parser = "ParserV1_5" -> ParserV1_5_parse_sample(instance_id, site_hash, raw)
      [] parser \in {"ParserV2_0", "ParserV2_1"} ->
            _parse_sample_v2_0(instance_id, site_hash, raw)
      [] parser = "ParserV3_0" -> ParserV3_0_parse_sample(instance_id, site_hash, raw)

-----------------------------------------------------------------------------
(* The aggregation engine as a state machine *)

NoReport == [pending |-> TRUE]

LimitIdle ==
    /\ limit_pc = "idle"
    /\ limit_obj = PyNone
    /\ raw_limit = PyNone
    /\ parsed_limit = PyNone

SampleIdle ==
    /\ sample_pc = "idle"
    /\ protocol_version = PyNone
    /\ arg_instance_id = PyNone
    /\ arg_site_hash = PyNone
    /\ raw_sample = PyNone
    /\ parsed_sample = PyNone

\* MonthlyServiceAverages.__init__ on the given inputs, with the class attribute today
Constructed(details, samples, now) ==
    /\ PostInitOk(details)
    /\ subscription_details = details
    /\ short_samples = samples
    /\ daily_services = CalculateDailyServices(samples)
    /\ monthly_service_averages = <<>>
    /\ today = now
    /\ report = NoReport
    /\ calls = 0

\* MonthlyServiceAverages.get_aggregation
GetAggregation ==
    /\ limit_pc = "idle"
    /\ calls < MaxCalls
    /\ LET averages == CalculateAverages(subscription_details, daily_services, today,
                                         monthly_service_averages)
       IN /\ monthly_service_averages' = averages
          /\ report' = Aggregation(subscription_details, daily_services, averages)
    /\ calls' = calls + 1
    /\ UNCHANGED <<subscription_details, short_samples, daily_services, today, limitVars, sampleVars>>

\* sample times: two on 2024-01-10, 2024-02-05 at noon, 2024-03-05 at midnight, the last second of 2024-03-06
SampleTimes ==
    {LocalTime(2024, 1, 10, 8, 0, 0), LocalTime(2024, 1, 10, 20, 0, 0),
     LocalTime(2024, 2, 5, 12, 0, 0), LocalTime(2024, 3, 5, 0, 0, 0),
     LocalTime(2024, 3, 6, 23, 59, 59)}

SampleCounts == {2, 5}

SeqsUpTo(S, n) == UNION {[1..k -> S] : k \in 0..n}

SampleInputs == SeqsUpTo(SampleTimes \X SampleCounts, MaxSamples)

StartInputs == {PyNone, PyInt(LocalTime(2024, 1, 1, 0, 0, 0)), PyInt(LocalTime(2024, 1, 31, 15, 0, 0))}

EndInputs == {PyNone, PyInt(LocalTime(2024, 3, 15, 10, 0, 0)), PyInt(LocalTime(2024, 4, 1, 0, 0, 0))}

LimitInputs == {PyNone, LimitUnlimited, LimitFree, PyInt(4), PyInt(0)}

\* today as a naive local datetime: 2024-04-01 00:00:00 or 2024-06-15 10:30:00
TodayInputs ==
    {FromTimestamp(LocalTime(2024, 4, 1, 0, 0, 0)), FromTimestamp(LocalTime(2024, 6, 15, 10, 30, 0))}

Init ==
    /\ LimitIdle
    /\ SampleIdle
    /\ \E start \in StartInputs, end \in EndInputs, limit \in LimitInputs,
          samples \in SampleInputs, now \in TodayInputs :
            Constructed(SubscriptionDetailsForAggregation(start, end, limit), samples, now)

Next == GetAggregation

Spec == Init /\ [][Next]_vars

-----------------------------------------------------------------------------
(* The example of the monthly averaging: a subscription from 2024-01-01 to  *)
(* 2024-04-01, 10 services on every day of January, 20 on every day of      *)
(* February and data for a part of March                                    *)

\* most days of March with data
MaxMarchDays == 3

\* days from 2024-01-01 to 2024-03-01
DaysBeforeMarch == DaysFromCivil(2024, 3, 1) - DaysFromCivil(2024, 1, 1)

DaysBeforeFebruary == DaysFromCivil(2024, 2, 1) - DaysFromCivil(2024, 1, 1)

\* one sample at noon of every day of January and February and of march_days days of March
\* from the day march_first on, holding march_count services; latest first when reversed
ExampleSamples(march_first, march_days, march_count, reversed) ==
    LET n == DaysBeforeMarch + march_days
        Day(k) == IF k <= DaysBeforeMarch THEN k - 1 ELSE k - 1 + (march_first - 1)
        Count(k) == IF k <= DaysBeforeFebruary THEN 10
                    ELSE IF k <= DaysBeforeMarch THEN 20
                    ELSE march_count
    IN [i \in 1..n |->
            LET k == IF reversed THEN n + 1 - i ELSE i
            IN <<LocalTime(2024, 1, 1, 12, 0, 0) + Day(k) * SecondsPerDay, Count(k)>>]

ExampleTodayInputs ==
    {FromTimestamp(LocalTime(2024, 4, 1, 0, 0, 0)), FromTimestamp(LocalTime(2024, 4, 1, 0, 0, 1)),
     FromTimestamp(LocalTime(2024, 4, 1, 10, 30, 0)), FromTimestamp(LocalTime(2024, 6, 15, 10, 30, 0)),
     FromTimestamp(LocalTime(2025, 1, 1, 0, 0, 0))}

InitExample ==
    /\ LimitIdle
    /\ SampleIdle
    /\ \E limit \in {PyInt(15), LimitUnlimited}, now \in ExampleTodayInputs,
          march_first \in {1, 10}, march_days \in 1..MaxMarchDays,
          march_count \in {5, 20, 30}, reversed \in BOOLEAN :
            Constructed(SubscriptionDetailsForAggregation(
                            PyInt(LocalTime(2024, 1, 1, 0, 0, 0)),
                            PyInt(LocalTime(2024, 4, 1, 0, 0, 0)), limit),
                        ExampleSamples(march_first, march_days, march_count, reversed), now)

SpecExample == InitExample /\ [][Next]_vars

-----------------------------------------------------------------------------
(* Histories longer than the retention: one sample a day for about          *)
(* RetentionDays days from 2023-01-01 on, some days sampled twice            *)

\* how far the number of days goes below and above RetentionDays
ExtraDays == 2

\* days distinct days, the first repeated of them sampled a second time in the evening
LongSamples(days, repeated, reversed) ==
    [i \in 1..(days + repeated) |->
        LET k == IF reversed THEN days + repeated + 1 - i ELSE i
        IN IF k <= days
              THEN <<LocalTime(2023, 1, 1, 8, 0, 0) + (k - 1) * SecondsPerDay, 1 + (k % 3)>>
              ELSE <<LocalTime(2023, 1, 1, 20, 0, 0) + (k - days - 1) * SecondsPerDay, 7>>]

LongInputs ==
    {LongSamples(days, repeated, reversed) :
        days \in (RetentionDays - ExtraDays)..(RetentionDays + ExtraDays),
        repeated \in {0, 3}, reversed \in BOOLEAN}

InitDaily ==
    /\ LimitIdle
    /\ SampleIdle
    /\ \E samples \in SampleInputs \cup LongInputs, limit \in {PyInt(4), LimitFree} :
            Constructed(SubscriptionDetailsForAggregation(
                            PyInt(LocalTime(2023, 1, 31, 15, 0, 0)),
                            PyInt(LocalTime(2024, 4, 1, 0, 0, 0)), limit),
                        samples, FromTimestamp(LocalTime(2024, 6, 15, 10, 30, 0)))

SpecDaily == InitDaily /\ [][Next]_vars

-----------------------------------------------------------------------------
(* The limit parser as a state machine: parse a raw limit, or render a limit *)
(* with for_report and parse the rendering                                   *)

\* largest of the small custom limits tried
MaxCustom == 3

TagInputs ==
    {PyStr(StrFixed), PyStr(StrUnlimited), PyStr(StrCustom), PyStr(Str2000000Plus), PyInt(7)}

ScalarInputs ==
    {PyInt(-1), PyInt(0), PyInt(5), PyInt(3000), PyInt(2000000),
     PyStr(StrOfInt(3000)), PyStr(<<" ">> \o StrOfInt(7000) \o <<" ">>), PyStr(StrOfInt(-1)),
     PyStr(<<"1", "_", "0">>), PyStr(Str2000000Plus), PyStr(StrUnlimited), PyStr(<<"a", "b", "c">>),
     PyFloat(-15), PyFloat(30000), PyFloat(25)}

ValueInputs == ScalarInputs \cup {PyNone}

RawLimitInputs ==
    {PyTuple(<<t, v>>) : t \in TagInputs, v \in ValueInputs}
    \cup {PyList(<<t, v>>) : t \in TagInputs, v \in ValueInputs}
    \cup ScalarInputs
    \cup {PyNone, PyDict, PyTuple(<<PyStr(StrFixed)>>),
          PyList(<<PyStr(StrCustom), PyInt(5), PyInt(5)>>)}

\* the limits of the three variants
LimitObjects ==
    {SubscriptionDetailsLimit("unlimited", -1)}
    \cup {SubscriptionDetailsLimit("fixed", n) : n \in FixedTierValues}
    \cup {SubscriptionDetailsLimit("custom", n) : n \in (1..MaxCustom) \cup {2999, 3001, 2000001}}

AggIdle ==
    Constructed(SubscriptionDetailsForAggregation(PyNone, PyNone, PyNone), <<>>,
                FromTimestamp(LocalTime(2024, 4, 1, 0, 0, 0)))

InitLimit ==
    /\ AggIdle
    /\ SampleIdle
    /\ parsed_limit = PyNone
    /\ \/ limit_pc = "raw" /\ limit_obj = PyNone /\ raw_limit \in RawLimitInputs
       \/ limit_pc = "obj" /\ limit_obj \in LimitObjects /\ raw_limit = PyNone

\* limit.for_report()
RenderLimit ==
    /\ limit_pc = "obj"
    /\ raw_limit' = for_report(limit_obj)
    /\ limit_pc' = "raw"
    /\ UNCHANGED <<limit_obj, parsed_limit, aggVars, sampleVars>>

\* SubscriptionDetailsLimit.parse(raw_limit)
ParseLimit ==
    /\ limit_pc = "raw"
    /\ parsed_limit' = parse(raw_limit)
    /\ limit_pc' = "done"
    /\ UNCHANGED <<limit_obj, raw_limit, aggVars, sampleVars>>

NextLimit == RenderLimit \/ ParseLimit

SpecLimit == InitLimit /\ [][NextLimit]_vars

-----------------------------------------------------------------------------
(* The sample parsers as a state machine: make the parser of a protocol       *)
(* version and parse one raw sample with it                                   *)

\* the keys every parser reads with raw[...]
CommonFields ==
    {"version", "edition", "platform", "is_cma", "sample_time", "timezone", "num_hosts",
     "num_services"}

\* the keys the parser of a protocol version reads with raw[...]
BodyFields(version) ==
    CASE version = "1.0" -> CommonFields
      [] version \in {"1.1", "1.2", "1.3"} ->
            CommonFields \cup {"num_hosts_excluded", "num_services_excluded"}
      [] version \in {"1.4", "1.5"} ->
            CommonFields \cup {"num_hosts_excluded", "num_services_excluded", "num_shadow_hosts"}
      [] version \in {"2.0", "2.1"} ->
            CommonFields \cup {"num_hosts_excluded", "num_services_excluded",
                               "num_hosts_cloud", "num_hosts_shadow",
                               "num_services_cloud", "num_services_shadow"}
      [] version = "3.0" ->
            CommonFields \cup {"num_hosts_excluded", "num_services_excluded",
                               "num_hosts_cloud", "num_hosts_shadow",
                               "num_services_cloud", "num_services_shadow",
                               "num_synthetic_tests", "num_synthetic_tests_excluded"}

Repeated(c, n) == [i \in 1..n |-> c]

ShortPlatform == PyStr(<<"d", "e", "b">>)

\* a platform string of 51 characters
LongPlatform == PyStr(Repeated("x", 50) \o <<"y">>)

\* a value for every key of the wire formats, each counter with a number of its own
WireValues ==
    [version |-> PyStr(<<"2", ".", "3">>),
     edition |-> PyStr(<<"c", "e", "e">>),
     platform |-> ShortPlatform,
     is_cma |-> PyBool(FALSE),
     sample_time |-> PyInt(1700000000),
     timezone |-> PyStr(<<"U", "T", "C">>),
     num_hosts |-> PyInt(11),
     num_hosts_cloud |-> PyInt(12),
     num_hosts_shadow |-> PyInt(13),
     num_shadow_hosts |-> PyInt(14),
     num_hosts_excluded |-> PyInt(15),
     num_services |-> PyInt(16),
     num_services_cloud |-> PyInt(17),
     num_services_shadow |-> PyInt(18),
     num_services_excluded |-> PyInt(19),
     num_synthetic_tests |-> PyInt(20),
     num_synthetic_tests_excluded |-> PyInt(21)]

Restricted(map, keys) == [k \in keys |-> map[k]]

\* the bodies of the records given to the parser of a version: exactly the keys it reads,
\* those keys but one, the keys of all versions, and an overlong or ill-typed platform
BodyInputs(version) ==
    {Restricted(WireValues, BodyFields(version))}
    \cup {Restricted(WireValues, BodyFields(version) \ {k}) : k \in BodyFields(version)}
    \cup {WireValues}
    \cup {[Restricted(WireValues, BodyFields(version)) EXCEPT !["platform"] = p] :
             p \in {LongPlatform, PyInt(5)}}

\* a key that a record does not have
Absent == [absent |-> TRUE]

\* the record map with the key set to the choice, or left as it is
With(map, key, choice) == IF choice = Absent THEN map ELSE (key :> choice) @@ map

\* aaaaaaaa-1111-2222-3333-bbbbbbbbbbbb
CanonicalUuidText ==
    Repeated("a", 8) \o <<"-">> \o Repeated("1", 4) \o <<"-">> \o Repeated("2", 4)
        \o <<"-">> \o Repeated("3", 4) \o <<"-">> \o Repeated("b", 12)

\* the same UUID as urn:uuid:{AAAAAAAA111122223333BBBBBBBBBBBB}
UrnUuidText ==
    <<"u", "r", "n", ":", "u", "u", "i", "d", ":", "{">> \o Repeated("A", 8)
        \o Repeated("1", 4) \o Repeated("2", 4) \o Repeated("3", 4) \o Repeated("B", 12)
        \o <<"}">>

\* 32 characters that are not all hexadecimal digits
NoHexText == Repeated("a", 31) \o <<"g">>

InstanceIdItems ==
    {Absent, PyNone, PyStr(<<>>), PyStr(CanonicalUuidText), PyStr(UrnUuidText),
     PyStr(NoHexText), PyStr(<<"z", "z">>), PyInt(5)}

SiteHashItems == {Absent, PyNone, PyStr(<<>>), PyStr(<<"h", "1">>)}

ExtensionNtopItems == {Absent, PyBool(TRUE), PyBool(FALSE)}

ExtensionsItems ==
    {Absent, PyNone, PyMapping(<<>>), PyMapping([ntop |-> PyBool(TRUE)]),
     PyMapping([ntop |-> PyBool(FALSE)])}

\* the records given to the parser of a version: every choice of the identity and
\* extension keys on the exact body, and every body with a site hash and a valid instance ID
RawSampleInputs(version) ==
    {PyMapping(With(With(With(With(Restricted(WireValues, BodyFields(version)),
                                   "instance_id", i), "site_hash", h),
                              "extension_ntop", n), "extensions", e)) :
        i \in InstanceIdItems, h \in SiteHashItems, n \in ExtensionNtopItems,
        e \in ExtensionsItems}
    \cup {PyMapping(With(With(body, "instance_id", i), "site_hash", PyStr(<<"h", "1">>))) :
             body \in BodyInputs(version), i \in {Absent, PyStr(CanonicalUuidText)}}
    \cup {PyNone, PyList(<<PyInt(1)>>), PyStr(<<"h", "1">>)}

\* the instance IDs a caller hands over: none, or a UUID other than the records' one
InstanceIdArguments ==
    {PyNone, [py |-> "UUID", hex |-> Repeated("c", 32)]}

SiteHashArguments == {PyStr(<<>>), PyStr(<<"h", "0">>)}

InitSample ==
    /\ AggIdle
    /\ LimitIdle
    /\ sample_pc = "raw"
    /\ protocol_version \in ProtocolVersions
    /\ arg_instance_id \in InstanceIdArguments
    /\ arg_site_hash \in SiteHashArguments
    /\ raw_sample \in RawSampleInputs(protocol_version)
    /\ parsed_sample = PyNone

\* make_parser(protocol_version).parse_sample(instance_id, site_hash, raw)
ParseSample ==
    /\ sample_pc = "raw"
    /\ parsed_sample' = parse_sample(make_parser(protocol_version), arg_instance_id,
                                     arg_site_hash, raw_sample)
    /\ sample_pc' = "done"
    /\ UNCHANGED <<protocol_version, arg_instance_id, arg_site_hash, raw_sample, aggVars,
                   limitVars>>

NextSample == ParseSample

SpecSample == InitSample /\ [][NextSample]_vars

-----------------------------------------------------------------------------
(* What the claims speak of *)

Called == calls > 0

Series == report.monthly_service_averages

SeriesEntries == {Series[i] : i \in DOMAIN Series}

\* the month start of an entry of the report's monthly series, as a local datetime
MonthStart(e) == FromTimestamp(e.sample_time)

StartDate == Midnight(FromTimestamp(subscription_details.start.int))

EndDate == Midnight(FromTimestamp(subscription_details.end.int))

HasWindow == ~IsNone(subscription_details.start) /\ ~IsNone(subscription_details.end)

\* the calendar day of the i-th input pair
SampleDay(i) == Midnight(FromTimestamp(short_samples[i][1]))

SampleDays == {SampleDay(i) : i \in DOMAIN short_samples}

RECURSIVE SumOfSamples(_)
SumOfSamples(I) ==
    IF I = {} THEN 0
    ELSE LET i == CHOOSE i \in I : TRUE IN short_samples[i][2] + SumOfSamples(I \ {i})

\* all counts of the input pairs of one calendar day
DaySum(day) == SumOfSamples({i \in DOMAIN short_samples : SampleDay(i) = day})

RECURSIVE SumOfDaily(_)
SumOfDaily(I) ==
    IF I = {} THEN 0
    ELSE LET i == CHOOSE i \in I : TRUE
         IN FracInt(daily_services[i].num_services) + SumOfDaily(I \ {i})

Least(a, b) == IF a < b THEN a ELSE b

\* subscription_exceeded_first is the earliest month whose average reaches limit, or
\* None when none does
ExceededFirstIs(limit) ==
    LET reaching == {e \in SeriesEntries : FracGE(e.num_services, Fraction(limit, 1))}
        first == report.subscription_exceeded_first
    IN IF reaching = {} THEN first = PyNone
       ELSE first \in reaching /\ \A e \in reaching : first.sample_time <= e.sample_time

-----------------------------------------------------------------------------
(* C1 *)

\* C1 (as stated): subscription_exceeded_first is the earliest month whose average
\* reaches the numeric limit, and None when the limit is 'unlimited', the free-tier
\* marker ('free', 3) or absent, or when no month reaches the limit.
C1_Original ==
    Called =>
        IF IsInt(subscription_details.limit)
           THEN ExceededFirstIs(subscription_details.limit.int)
           ELSE report.subscription_exceeded_first = PyNone

\* C1 (amended): subscription_exceeded_first is the earliest month whose average reaches
\* the real limit, which is the number itself for a numeric limit and 3 for the free-tier
\* marker ('free', 3); it is None when the limit is 'unlimited' or absent, or when no
\* month reaches the limit.
C1_ExceededFirst ==
    Called =>
        IF IsInt(subscription_details.limit)
           THEN ExceededFirstIs(subscription_details.limit.int)
        ELSE IF IsTuple(subscription_details.limit)
           THEN ExceededFirstIs(3)
        ELSE report.subscription_exceeded_first = PyNone

\* a free-tier subscription whose second month is the first to reach 3
C1_Witness ==
    /\ Called
    /\ is_free(subscription_details)
    /\ Len(Series) >= 2
    /\ report.subscription_exceeded_first = Series[2]
    /\ Series[1].sample_time < Series[2].sample_time

-----------------------------------------------------------------------------
(* C2 *)

\* C2: every month of the monthly series is fully elapsed and within the subscription:
\* its month_end lies before today, it does not start at or after the subscription end
\* date nor end after it, and it does not start before the subscription start date.
C2_ElapsedWithinSubscription ==
    Called =>
        \A e \in SeriesEntries :
            /\ HasWindow
            /\ AddMonth(MonthStart(e)) < today
            /\ MonthStart(e) < EndDate
            /\ AddMonth(MonthStart(e)) <= EndDate
            /\ StartDate <= MonthStart(e)

\* a month is reported, and a later day with data lies in the window ending exactly today
C2_Witness ==
    /\ Called
    /\ Series # <<>>
    /\ \E i \in DOMAIN daily_services :
          /\ AddMonth(MonthStart(Series[Len(Series)])) <= daily_services[i].sample_date
          /\ daily_services[i].sample_date < today
          /\ AddMonth(AddMonth(MonthStart(Series[Len(Series)]))) = today

-----------------------------------------------------------------------------
(* C3 *)

ExampleMonth(m, services) ==
    [sample_time |-> LocalTime(2024, m, 1, 0, 0, 0), num_services |-> Fraction(services, 1)]

\* the services of the days of March with data (all the same in the example)
MarchServices ==
    LET i == CHOOSE i \in DOMAIN short_samples : short_samples[i][1] >= LocalTime(2024, 3, 1, 0, 0, 0)
    IN short_samples[i][2]

ExampleTodayIsApril1 == today = FromTimestamp(LocalTime(2024, 4, 1, 0, 0, 0))

\* C3 (as stated): for any today at or after 2024-04-01 the monthly series holds exactly
\* January (10) and February (20), and last and highest are both February's 20.
C3_Original ==
    Called =>
        /\ SeriesEntries = {ExampleMonth(1, 10), ExampleMonth(2, 20)}
        /\ report.last_service_report = ExampleMonth(2, 20)
        /\ report.highest_service_report = ExampleMonth(2, 20)

\* C3 (amended): when today is exactly 2024-04-01 00:00:00 the monthly series holds
\* exactly January (10) and February (20) and last and highest are February's 20; for any
\* later today the series also holds March with the average of its days with data, last
\* is March's and highest is the greater of February's 20 and March's average.
C3_Example ==
    Called =>
        IF ExampleTodayIsApril1
           THEN /\ SeriesEntries = {ExampleMonth(1, 10), ExampleMonth(2, 20)}
                /\ report.last_service_report = ExampleMonth(2, 20)
                /\ report.highest_service_report = ExampleMonth(2, 20)
                /\ calls = 1 => Series = <<ExampleMonth(1, 10), ExampleMonth(2, 20)>>
           ELSE /\ SeriesEntries = {ExampleMonth(1, 10), ExampleMonth(2, 20),
                                    ExampleMonth(3, MarchServices)}
                /\ report.last_service_report = ExampleMonth(3, MarchServices)
                /\ report.highest_service_report =
                       (IF MarchServices > 20 THEN ExampleMonth(3, MarchServices)
                        ELSE ExampleMonth(2, 20))
                /\ calls = 1 => Series = <<ExampleMonth(1, 10), ExampleMonth(2, 20),
                                          ExampleMonth(3, MarchServices)>>

\* today is 2024-04-01 00:00:00, March has data, and the report ends with February
C3_Witness ==
    /\ Called
    /\ ExampleTodayIsApril1
    /\ \E i \in DOMAIN daily_services :
            daily_services[i].sample_date >= FromTimestamp(LocalTime(2024, 3, 1, 0, 0, 0))
    /\ report.last_service_report = ExampleMonth(2, 20)

-----------------------------------------------------------------------------
(* C4 *)

\* the daily buckets whose day lies in the month window starting at month_start
DaysInWindow(month_start) ==
    {i \in DOMAIN daily_services :
        /\ month_start <= daily_services[i].sample_date
        /\ daily_services[i].sample_date < AddMonth(month_start)}

\* C4: the average of every month of the series is the sum of the daily counts of the
\* daily buckets in its window divided by the number of days with data in the window.
C4_Claim ==
    Called =>
        \A e \in SeriesEntries :
            /\ DaysInWindow(MonthStart(e)) # {}
            /\ e.num_services = Fraction(SumOfDaily(DaysInWindow(MonthStart(e))),
                                         Cardinality(DaysInWindow(MonthStart(e))))

-----------------------------------------------------------------------------
(* C5 *)

\* C5: the daily series has one entry per distinct calendar day of the input, holding the
\* sum of that day's counts, strictly ascending by day, and it holds the
\* min(400, number of distinct days) most recent days.
C5_DailySeries ==
    LET days == SampleDays
    IN /\ Len(daily_services) = Least(RetentionDays, Cardinality(days))
       /\ \A i \in 1..(Len(daily_services) - 1) :
             daily_services[i].sample_date < daily_services[i + 1].sample_date
       /\ \A i \in DOMAIN daily_services :
             /\ daily_services[i].sample_date \in days
             /\ daily_services[i].num_services = Fraction(DaySum(daily_services[i].sample_date), 1)
       /\ \A d \in days :
             (\A i \in DOMAIN daily_services : daily_services[i].sample_date # d)
                 => daily_services # <<>> /\ d < daily_services[1].sample_date

\* more than 400 distinct days, given latest first and some of them twice
C5_Witness ==
    /\ Len(daily_services) = RetentionDays
    /\ Cardinality(SampleDays) > RetentionDays
    /\ Len(short_samples) > Cardinality(SampleDays)
    /\ short_samples[1][1] > short_samples[2][1]

-----------------------------------------------------------------------------
(* C6 *)

\* C6: highest_service_report is None when the monthly series is empty; otherwise it is
\* a month of the series with the greatest average, the earliest of those.
C6_Highest ==
    Called =>
        IF Series = <<>> THEN report.highest_service_report = PyNone
        ELSE /\ report.highest_service_report \in SeriesEntries
             /\ \A e \in SeriesEntries :
                   /\ FracGE(report.highest_service_report.num_services, e.num_services)
                   /\ e.num_services = report.highest_service_report.num_services
                         => report.highest_service_report.sample_time <= e.sample_time

\* two months share the greatest average, and the earlier one is reported
C6_Witness ==
    /\ Called
    /\ Len(Series) >= 2
    /\ Series[1].sample_time < Series[2].sample_time
    /\ Series[1].num_services = Series[2].num_services
    /\ report.highest_service_report = Series[1]

-----------------------------------------------------------------------------
(* C7 *)

\* C7: last_service_report is None when the monthly series is empty; otherwise it is the
\* entry with the latest month start, the series being strictly ascending by month.
C7_Claim ==
    Called =>
        /\ Series = <<>> => report.last_service_report = PyNone
        /\ Series # <<>> =>
              /\ report.last_service_report \in SeriesEntries
              /\ \A e \in SeriesEntries : e.sample_time <= report.last_service_report.sample_time
        /\ \A i \in 1..(Len(Series) - 1) : Series[i].sample_time < Series[i + 1].sample_time

-----------------------------------------------------------------------------
(* C8 *)

\* C8: without a subscription start or end the report has an empty monthly series and
\* None for last, highest and exceeded-first, and its daily_services is the whole daily
\* series of the input pairs.
C8_NoWindow ==
    (Called /\ ~HasWindow) =>
        /\ Series = <<>>
        /\ report.last_service_report = PyNone
        /\ report.highest_service_report = PyNone
        /\ report.subscription_exceeded_first = PyNone
        /\ Len(report.daily_services) = Least(RetentionDays, Cardinality(SampleDays))
        /\ \A i \in DOMAIN report.daily_services :
              /\ FromTimestamp(report.daily_services[i].sample_time) \in SampleDays
              /\ report.daily_services[i].num_services =
                    Fraction(DaySum(FromTimestamp(report.daily_services[i].sample_time)), 1)
              /\ i > 1 => report.daily_services[i - 1].sample_time
                              < report.daily_services[i].sample_time

\* no start but an end and the limit 4, and two days of data, one of them with 4 or more
C8_Witness ==
    /\ Called
    /\ IsNone(subscription_details.start)
    /\ ~IsNone(subscription_details.end)
    /\ subscription_details.limit = PyInt(4)
    /\ Len(report.daily_services) = 2
    /\ FracGE(report.daily_services[1].num_services, Fraction(4, 1))
    /\ Series = <<>>

-----------------------------------------------------------------------------
(* C9 *)

Parsed == limit_pc = "done"

IsPair(raw) == (IsList(raw) \/ IsTuple(raw)) /\ Len(raw.items) = 2

IsScalar(raw) == IsStr(raw) \/ IsInt(raw) \/ IsFloat(raw)

\* the type-tag and the value the rules are applied to
TagOf(raw) == IF IsPair(raw) THEN raw.items[1] ELSE PyStr(PyStrOf(raw))

ValueOf(raw) == IF IsPair(raw) THEN raw.items[2] ELSE raw

TagSaysUnlimited(tag) == tag = PyStr(Str2000000Plus) \/ tag = PyStr(StrUnlimited)

\* the numeric value is -1 (a float counts by its integer part, as int() takes it)
IsMinusOne(value) == PyIntOf(value).ok /\ PyIntOf(value).int = -1

InFixedTiers(value) == IsScalar(value) /\ PyStrOf(value) \in _SUBSCRIPTION_LIMITS_FIXED

IsLimitOf(result, type_) == result.ok /\ result.limit.type_ = type_

\* C9 (as stated): on a 2-element pair (with a scalar value) or a scalar the result is
\* unlimited(-1) when the type-tag is "2000000+" or "unlimited" or the numeric value is
\* -1, else fixed(value) when the stringified value is a fixed tier, else custom(value);
\* what is neither a 2-element pair nor a scalar is a type error.
C9_Original ==
    Parsed =>
        IF IsScalar(raw_limit) \/ (IsPair(raw_limit) /\ IsScalar(ValueOf(raw_limit)))
           THEN IF TagSaysUnlimited(TagOf(raw_limit)) \/ IsMinusOne(ValueOf(raw_limit))
                   THEN parsed_limit = Returned(SubscriptionDetailsLimit("unlimited", -1))
                ELSE IF InFixedTiers(ValueOf(raw_limit))
                   THEN IsLimitOf(parsed_limit, "fixed")
                ELSE IsLimitOf(parsed_limit, "custom")
           ELSE IsPair(raw_limit) \/ parsed_limit = Raised("TypeError")

\* C9 (amended): on a 2-element list or tuple or a scalar: the type-tag "2000000+" or
\* "unlimited" gives unlimited(-1); otherwise the value goes through int(), a type error
\* for a value that is no str, int or float and a value error for a string that is no
\* integer literal; int(value) = -1 gives unlimited(-1), else a stringified value in the
\* fixed tier set gives fixed(int(value)), else custom(int(value)). Anything else is a
\* type error.
C9_ParseRules ==
    Parsed =>
        IF IsPair(raw_limit) \/ IsScalar(raw_limit)
           THEN IF TagSaysUnlimited(TagOf(raw_limit))
                   THEN parsed_limit = Returned(SubscriptionDetailsLimit("unlimited", -1))
                ELSE IF ~IsScalar(ValueOf(raw_limit))
                   THEN parsed_limit = Raised("TypeError")
                ELSE IF ~PyIntOf(ValueOf(raw_limit)).ok
                   THEN IsStr(ValueOf(raw_limit)) /\ parsed_limit = Raised("ValueError")
                ELSE IF PyIntOf(ValueOf(raw_limit)).int = -1
                   THEN parsed_limit = Returned(SubscriptionDetailsLimit("unlimited", -1))
                ELSE IF InFixedTiers(ValueOf(raw_limit))
                   THEN parsed_limit = Returned(SubscriptionDetailsLimit("fixed",
                                                    PyIntOf(ValueOf(raw_limit)).int))
                ELSE parsed_limit = Returned(SubscriptionDetailsLimit("custom",
                                                    PyIntOf(ValueOf(raw_limit)).int))
           ELSE parsed_limit = Raised("TypeError")

\* the pair ("fixed", "2000000+") was parsed and raised a value error
C9_Witness ==
    /\ Parsed
    /\ raw_limit = PyTuple(<<PyStr(StrFixed), PyStr(Str2000000Plus)>>)
    /\ parsed_limit = Raised("ValueError")

-----------------------------------------------------------------------------
(* C10 *)

\* C10: parsing the for_report rendering of a limit (unlimited -1, a fixed tier, a
\* positive custom value outside the tiers) gives the limit back.
C10_RoundTrip ==
    (Parsed /\ limit_obj # PyNone) => parsed_limit = Returned(limit_obj)

\* the fixed limit 2000000 was rendered and parsed
C10_Witness ==
    /\ Parsed
    /\ limit_obj = SubscriptionDetailsLimit("fixed", 2000000)
    /\ raw_limit = PyTuple(<<PyStr(StrFixed), PyInt(2000000)>>)
    /\ parsed_limit.ok

-----------------------------------------------------------------------------
(* What the claims about the sample parsers speak of *)

SampleParsed == sample_pc = "done"

RecordHas(key) == IsDict(raw_sample) /\ key \in DOMAIN raw_sample.map

\* the versions whose records must carry the instance ID
ReadsInstanceId(version) == version \in {"1.5", "2.0", "2.1", "3.0"}

\* the site hash the parse goes by: the record's when it has the field, else the caller's
ResolvedSiteHash ==
    IF RecordHas("site_hash") THEN raw_sample.map["site_hash"] ELSE arg_site_hash

NonEmptyStr(x) == IsStr(x) /\ x.str # <<>>

\* the record has every field of the version's body with a string platform, and a
\* non-empty site hash is at hand
ValidBody ==
    /\ IsDict(raw_sample)
    /\ BodyFields(protocol_version) \subseteq DOMAIN raw_sample.map
    /\ IsStr(raw_sample.map["platform"])
    /\ NonEmptyStr(ResolvedSiteHash)

\* the record's legacy extensions field, if any, is a mapping
ValidExtensions == RecordHas("extensions") => IsDict(raw_sample.map["extensions"])

\* the record's instance ID is the text of a UUID
ValidInstanceId ==
    /\ RecordHas("instance_id")
    /\ raw_sample.map["instance_id"] \in {PyStr(CanonicalUuidText), PyStr(UrnUuidText)}

-----------------------------------------------------------------------------
(* C11 *)

\* C11: the parsers of 1.5, 2.0, 2.1 and 3.0 fail with a value error on a mapping whose
\* instance_id is absent or the empty string, whatever instance_id the caller supplies;
\* the parsers of 1.0 to 1.4 succeed on an otherwise valid record, with or without an
\* instance_id in it, and the sample's instance_id is the caller-supplied one.
C11_InstanceId ==
    SampleParsed =>
        IF ReadsInstanceId(protocol_version)
           THEN (IsDict(raw_sample) /\ (~RecordHas("instance_id")
                                        \/ raw_sample.map["instance_id"] = PyStr(<<>>)))
                    => parsed_sample = Raised("ValueError")
           ELSE (ValidBody /\ ValidExtensions)
                    => /\ parsed_sample.ok
                       /\ parsed_sample.value.instance_id = arg_instance_id

\* a 1.5 record with every field and a site hash but an empty instance_id, parsed with
\* a caller-supplied UUID: a value error
C11_Witness ==
    /\ SampleParsed
    /\ protocol_version = "1.5"
    /\ ValidBody /\ ValidExtensions
    /\ RecordHas("instance_id")
    /\ raw_sample.map["instance_id"] = PyStr(<<>>)
    /\ arg_instance_id # PyNone
    /\ parsed_sample = Raised("ValueError")

-----------------------------------------------------------------------------
(* C12 *)

\* C12: for every version the sample's site_hash is the record's when the record has the
\* field and the caller's fallback when it has not; the parse fails with a value error
\* when that site hash is empty, and with a type error on a record that is no mapping.
C12_SiteHash ==
    SampleParsed =>
        /\ ~IsDict(raw_sample) => parsed_sample = Raised("TypeError")
        /\ (IsDict(raw_sample) /\ ResolvedSiteHash = PyStr(<<>>))
              => parsed_sample = Raised("ValueError")
        /\ (IsDict(raw_sample) /\ parsed_sample.ok)
              => parsed_sample.value.site_hash = ResolvedSiteHash

\* a 3.0 record without a site_hash, parsed with the fallback h0, which the sample takes
C12_Witness ==
    /\ SampleParsed
    /\ protocol_version = "3.0"
    /\ IsDict(raw_sample)
    /\ ~RecordHas("site_hash")
    /\ parsed_sample.ok
    /\ parsed_sample.value.site_hash = PyStr(<<"h", "0">>)

-----------------------------------------------------------------------------
(* C13 *)

\* the fields of the record of a version: what its parser reads, the site hash and, from
\* 1.5 on, the instance ID
VersionFields(version) ==
    BodyFields(version) \cup {"site_hash"}
        \cup (IF ReadsInstanceId(version) THEN {"instance_id"} ELSE {})

\* a minimally valid record of the version: exactly its fields, none of them ill-typed
MinimalRecord ==
    /\ ValidBody
    /\ DOMAIN raw_sample.map = VersionFields(protocol_version)
    /\ ReadsInstanceId(protocol_version) => ValidInstanceId

\* the counter of the sample is the one the record holds under the key
ReadFrom(counter, key) == parsed_sample.value[counter] = raw_sample.map[key]

Zero(counter) == parsed_sample.value[counter] = PyInt(0)

\* C13: a minimally valid record holding exactly the version's fields is parsed, and the
\* counters follow the version table: 1.0 all of cloud, shadow, excluded and synthetic 0;
\* 1.1-1.3 excluded from the record, cloud, shadow and synthetic 0; 1.4 and 1.5 also the
\* shadow hosts from the record; 2.0 and 2.1 cloud and shadow from the record, synthetic
\* 0; 3.0 every counter from the record.
C13_VersionTable ==
    (SampleParsed /\ MinimalRecord) =>
        /\ parsed_sample.ok
        /\ ReadFrom("num_hosts", "num_hosts") /\ ReadFrom("num_services", "num_services")
        /\ IF protocol_version = "1.0"
              THEN Zero("num_hosts_excluded") /\ Zero("num_services_excluded")
              ELSE /\ ReadFrom("num_hosts_excluded", "num_hosts_excluded")
                   /\ ReadFrom("num_services_excluded", "num_services_excluded")
        /\ IF protocol_version \in {"1.0", "1.1", "1.2", "1.3"}
              THEN Zero("num_hosts_shadow") /\ Zero("num_services_shadow")
           ELSE IF protocol_version \in {"1.4", "1.5"}
              THEN ReadFrom("num_hosts_shadow", "num_shadow_hosts")
           ELSE /\ ReadFrom("num_hosts_shadow", "num_hosts_shadow")
                /\ ReadFrom("num_services_shadow", "num_services_shadow")
        /\ IF protocol_version \in {"2.0", "2.1", "3.0"}
              THEN /\ ReadFrom("num_hosts_cloud", "num_hosts_cloud")
                   /\ ReadFrom("num_services_cloud", "num_services_cloud")
              ELSE Zero("num_hosts_cloud") /\ Zero("num_services_cloud")
        /\ IF protocol_version = "3.0"
              THEN /\ ReadFrom("num_synthetic_tests", "num_synthetic_tests")
                   /\ ReadFrom("num_synthetic_tests_excluded", "num_synthetic_tests_excluded")
              ELSE Zero("num_synthetic_tests") /\ Zero("num_synthetic_tests_excluded")

\* the minimal 1.4 record was parsed and the sample has its shadow hosts and no cloud hosts
C13_Witness ==
    /\ SampleParsed
    /\ protocol_version = "1.4"
    /\ MinimalRecord
    /\ parsed_sample.ok
    /\ parsed_sample.value.num_hosts_shadow = PyInt(14)
    /\ parsed_sample.value.num_hosts_cloud = PyInt(0)

-----------------------------------------------------------------------------
(* C14 *)

\* C14: for every version and every mapping record that is valid otherwise, the sample's
\* extension_ntop is the flattened extension_ntop field when the record has it, whatever
\* it holds under the legacy extensions field; else the legacy extensions.ntop field when
\* the record has it; else false.
C14_Claim ==
    (SampleParsed /\ ValidBody /\ (ReadsInstanceId(protocol_version) => ValidInstanceId)) =>
        IF RecordHas("extension_ntop")
           THEN /\ parsed_sample.ok
                /\ parsed_sample.value.extension_ntop = raw_sample.map["extension_ntop"]
        ELSE IF ~ValidExtensions THEN TRUE
        ELSE IF RecordHas("extensions") /\ "ntop" \in DOMAIN raw_sample.map["extensions"].map
           THEN /\ parsed_sample.ok
                /\ parsed_sample.value.extension_ntop = raw_sample.map["extensions"].map["ntop"]
        ELSE /\ parsed_sample.ok
             /\ parsed_sample.value.extension_ntop = PyBool(FALSE)

-----------------------------------------------------------------------------
(* C15 *)

RECURSIVE WindowOf(_, _)
\* the start of the month window that holds the day (a day not before month_start), the
\* windows following each other from month_start on
WindowOf(day, month_start) ==
    IF day < AddMonth(month_start) THEN month_start
    ELSE WindowOf(day, AddMonth(month_start))

\* the window is fully elapsed and within the subscription
Qualifies(month_start) ==
    AddMonth(month_start) < today /\ AddMonth(month_start) <= EndDate

\* the monthly series has the window, with the average of exactly its daily buckets
AveragedInWindow(month_start) ==
    \E e \in SeriesEntries :
        /\ MonthStart(e) = month_start
        /\ e.num_services = Fraction(SumOfDaily(DaysInWindow(month_start)),
                                     Cardinality(DaysInWindow(month_start)))

\* C15: every daily bucket whose day lies in a fully elapsed month window within the
\* subscription is counted in that window's average and in no other, also after a gap of
\* more than a month and when the series starts more than a month after the start.
C15_Claim ==
    (Called /\ HasWindow) =>
        \A i \in DOMAIN daily_services :
            (daily_services[i].sample_date >= StartDate
                /\ Qualifies(WindowOf(daily_services[i].sample_date, StartDate)))
              => AveragedInWindow(WindowOf(daily_services[i].sample_date, StartDate))

-----------------------------------------------------------------------------
(* C16 *)

\* the report of a first get_aggregation call on the instance as it was constructed
FirstReport ==
    Aggregation(subscription_details, daily_services,
                CalculateAverages(subscription_details, daily_services, today, <<>>))

\* C16: every get_aggregation call on an instance returns the report the first call
\* returned.
C16_Claim == Called => report = FirstReport

====
